---- MODULE Spec2Model ----
(***************************************************************************)
(* Model of compare_groups (src/src/sber_neuro/stats/tests.py): one call   *)
(* of the automatic two-sample comparison, stepped through its pipeline    *)
(* sanitize -> shapiro(a) -> shapiro(b) -> selected test -> summary.       *)
(*                                                                         *)
(* Specifications.  Spec: one call, step by step.  SpecSession: three      *)
(* calls one after the other, the second on a variant of the first's       *)
(* arguments.  SpecConc: two calls with their steps interleaved.           *)
(* SpecPalette: get_palette (src/src/neuro_metrics/colors.py) and callers  *)
(* that change the lists they received.  SpecAlias: the same with          *)
(* get_color.  SpecPage: the runs of the upload page (src/app.py), one     *)
(* run per interaction, stepped through lines 17-48.                       *)
(*                                                                         *)
(* Numbers.  Observations are small integers; NaN is the not-a-number      *)
(* observation.  A p-value is an integer count of 1e-5 units (0..PMax), or *)
(* NaN.  Comparisons with NaN are false, as in IEEE-754.                   *)
(*                                                                         *)
(* Floating point.  The arrays hold float64 and np.mean adds them from     *)
(* left to right, rounding every partial sum to the nearest representable  *)
(* value (ties to even), and rounds the quotient again.  float64 keeps 53  *)
(* significant bits; the model keeps MantissaBits of them, so that the     *)
(* rounding shows on samples of the model's size.                          *)
(*                                                                         *)
(* Library calls.  scipy.stats is not part of the repository: each call is *)
(* a choice among the outcomes the installed library can produce for the   *)
(* arguments it is given (a p-value, a ValueError, another exception).     *)
(* How the library treats a sample that is too small (raise ValueError, or *)
(* return NaN with a warning) is a property of the installed build: it is  *)
(* fixed by the first such call and the same for every later one.          *)
(***************************************************************************)
EXTENDS Integers, Sequences, FiniteSets, TLC

\* ------------------------------------------------------------- bounds
MaxLen == 3                      \* longest input sample
MaxColors == 8                   \* largest n_colors asked for
MaxEdits == 1                    \* changes callers make to lists they received
MaxReruns == 3                   \* interactions with the upload page

\* ---------------------------------------------------------- constants
NaN == -1                        \* not-a-number (observation or p-value)
ALPHA == 5000                    \* 0.05 in units of 1e-5
PMax == 100000                   \* 1.0  in units of 1e-5

ObsA == {1, 4}                   \* observations offered to group A
ObsB == {1, 2}                   \* observations offered to group B

RECURSIVE SeqsUpTo(_, _)
SeqsUpTo(S, n) ==
    IF n = 0 THEN {<<>>}
    ELSE LET shorter == SeqsUpTo(S, n - 1)
         IN  shorter \cup {Append(s, x) : s \in {t \in shorter : Len(t) = n - 1}, x \in S}

\* ------------------------------------------------------- IEEE compare
Lt(x, y) == x # NaN /\ y # NaN /\ x < y
Ge(x, y) == x # NaN /\ y # NaN /\ x >= y

\* ---------------------------------------------------------- sanitize
\* a[~np.isnan(a)]: the non-NaN entries, in order
DropNaN_None(s) == s
RECURSIVE DropNaN(_)
DropNaN(s) ==
    IF s = <<>> THEN <<>>
    ELSE IF Head(s) = NaN THEN DropNaN(Tail(s))
         ELSE <<Head(s)>> \o DropNaN(Tail(s))

\* ------------------------------------------------------ sample shape
RECURSIVE Sum(_)
Sum(s) == IF s = <<>> THEN 0 ELSE Head(s) + Sum(Tail(s))

IsConstant(s) == \A i \in 1..Len(s) : s[i] = s[1]

\* the exact mean of a sample, the pair <<sum, n>>
SampleMean(s) == <<Sum(s), Len(s)>>

\* ----------------------------------------------------- float arithmetic
MantissaBits == 2                \* significant bits of a float (53 in float64)
FracBits == 4                    \* a float is a whole number of 2^-FracBits

RECURSIVE Pow2(_)
Pow2(n) == IF n = 0 THEN 1 ELSE 2 * Pow2(n - 1)
Unit == Pow2(FracBits)           \* 1.0
Wide == Pow2(MantissaBits)       \* the first whole number with a bit too many

\* the spacing of the floats around N/D: the least power of two that leaves
\* at most MantissaBits significant bits
RECURSIVE Ulp(_, _, _)
Ulp(N, D, step) ==
    IF N >= Wide * step * D THEN Ulp(N, D, 2 * step) ELSE step

\* N/D rounded to the nearest float, ties to the even significand
FRound(N, D) ==
    LET ulp == Ulp(N, D, 1)
        den == D * ulp
        f == N \div den
        r == N % den
        m == IF 2 * r < den THEN f
             ELSE IF 2 * r > den THEN f + 1
             ELSE f + (f % 2)
    IN  m * ulp

\* line 25: np.asarray makes a float of an observation
ToFloat(o) == FRound(o * Unit, 1)

\* np.add.reduce on fewer than 8 elements: res = 0.; res += a[i], in order
RECURSIVE FSumFrom(_, _)
FSumFrom(acc, s) ==
    IF s = <<>> THEN acc
    ELSE FSumFrom(FRound(acc + ToFloat(Head(s)), 1), Tail(s))
FSum(s) == FSumFrom(0, s)

\* np.mean: the float sum / n, as the pair <<float, Unit>>; <<0, 0>> is the
\* NaN mean of an empty array
Mean(s) == IF s = <<>> THEN <<0, 0>> ELSE <<FRound(FSum(s), Len(s)), Unit>>
MeanIsNaN(m) == m[2] = 0
MeanGt(m1, m2) == ~MeanIsNaN(m1) /\ ~MeanIsNaN(m2) /\ m1[1] * m2[2] > m2[1] * m1[2]
MeanEq(m1, m2) == ~MeanIsNaN(m1) /\ ~MeanIsNaN(m2) /\ m1[1] * m2[2] = m2[1] * m1[2]

\* Twice the Mann-Whitney U statistic of x over y (ties count one half)
RECURSIVE TwiceU(_, _)
TwiceU(x, y) ==
    IF x = <<>> THEN 0
    ELSE LET h == Head(x)
             wins == Cardinality({j \in 1..Len(y) : h > y[j]})
             ties == Cardinality({j \in 1..Len(y) : h = y[j]})
         IN  2 * wins + ties + TwiceU(Tail(x), y)

\* ------------------------------------------------- library outcomes
Ok(p) == [kind |-> "ok", pvalue |-> p]
Raises(e) == [kind |-> e, pvalue |-> NaN]

\* The build's treatment of a too-small sample: "raise" (ValueError), "nan"
\* (NaN result and a warning, which a caller's warning filter may turn into
\* an exception that is no ValueError), "unseen" before the first such call.
TooSmallOutcomes(policy) ==
    (IF policy # "nan" THEN {Raises("ValueError")} ELSE {})
        \cup (IF policy # "raise" THEN {Ok(NaN), Raises("OtherError")} ELSE {})
PolicyAfter(policy, tooSmall, r) ==
    IF ~tooSmall THEN policy
    ELSE IF r.kind = "ValueError" THEN "raise" ELSE "nan"

\* stats.shapiro(x): needs 3 observations; warns on a sample of range zero
ShapiroOutcomes(x, policy) ==
    IF Len(x) < 3
    THEN TooSmallOutcomes(policy)
    ELSE IF IsConstant(x)
         THEN {Ok(PMax), Raises("OtherError")}
         ELSE {Ok(ALPHA - 1), Ok(ALPHA)}

\* stats.ttest_ind(x, y)
TtestOutcomes(x, y) ==
    IF Len(x) = 0 \/ Len(y) = 0 \/ Len(x) + Len(y) < 3
    THEN {Ok(NaN)}
    ELSE IF IsConstant(x) /\ IsConstant(y)
         THEN IF x[1] = y[1] THEN {Ok(NaN)} ELSE {Ok(0)}
         ELSE IF MeanEq(SampleMean(x), SampleMean(y))
              THEN {Ok(PMax)}
              ELSE {Ok(0), Ok(ALPHA - 1), Ok(ALPHA)}

\* stats.mannwhitneyu(x, y)
MannWhitneyOutcomes(x, y, policy) ==
    IF Len(x) = 0 \/ Len(y) = 0
    THEN TooSmallOutcomes(policy) \ {Raises("OtherError")}
    ELSE IF TwiceU(x, y) = Len(x) * Len(y)
         THEN {Ok(PMax)}
         ELSE {Ok(0), Ok(ALPHA - 1), Ok(ALPHA), Ok(PMax)}

\* ------------------------------------------------------ code pieces
\* lines 37-38: is_normal = shapiro.pvalue >= 0.05
IsNormal_NotBelow(p) == ~Lt(p, ALPHA)
IsNormal(p) == Ge(p, ALPHA)

\* lines 39-43: the ValueError handler's classification of both samples;
\* pa is the p-value shapiro(a) gave if it had completed, NaN otherwise
OnValueError_KeepA(pa) == [a |-> IsNormal(pa), b |-> FALSE]
OnValueError(pa) == [a |-> FALSE, b |-> FALSE]

\* lines 47-52: the test chosen from the two classifications
SelectTest_Either(na, nb) == IF na \/ nb THEN "T-test" ELSE "Mann-Whitney U test"
SelectTest(na, nb) == IF na /\ nb THEN "T-test" ELSE "Mann-Whitney U test"

\* lines 50, 54: p_value = stat_res.pvalue
PValueOf(res) == res.pvalue

\* lines 49, 53: an exception of the selected test is not caught
Propagate_Wrapped(e) == "ComputationError"
Propagate(e) == e

\* line 56: significant = p_value < 0.05
Significant_Le(p) == p # NaN /\ p <= ALPHA
Significant(p) == Lt(p, ALPHA)

\* lines 62-70: the direction sentence
Direction_Always(sig, ma, mb) ==
    IF MeanGt(ma, mb) THEN "Group A mean is higher." ELSE "Group B mean is higher."
Direction_TieA(sig, ma, mb) ==
    IF sig
    THEN IF MeanGt(ma, mb) \/ MeanEq(ma, mb)
         THEN "Group A mean is higher." ELSE "Group B mean is higher."
    ELSE ""
Direction(sig, ma, mb) ==
    IF sig
    THEN IF MeanGt(ma, mb) THEN "Group A mean is higher." ELSE "Group B mean is higher."
    ELSE ""

\* f"{p_value:.4f}": round half to even at the fourth decimal, "nan" for NaN
Digit(n) == ToString(n % 10)
Format4(p) ==
    IF p = NaN THEN "nan"
    ELSE LET q == p \div 10
             r == p % 10
             n == IF r > 5 \/ (r = 5 /\ q % 2 = 1) THEN q + 1 ELSE q
         IN  ToString(n \div 10000) \o "." \o Digit(n \div 1000) \o Digit(n \div 100)
                 \o Digit(n \div 10) \o Digit(n)

\* lines 67, 70
MsgStart(sig, p) ==
    IF sig THEN "Significant difference found (p = " \o Format4(p) \o ")."
    ELSE "No significant difference found (p = " \o Format4(p) \o ")."

\* str.strip(): leading and trailing blanks removed
RECURSIVE Strip(_)
Strip(s) ==
    IF Len(s) = 0 THEN s
    ELSE IF SubSeq(s, 1, 1) = " " THEN Strip(SubSeq(s, 2, Len(s)))
    ELSE IF SubSeq(s, Len(s), Len(s)) = " " THEN Strip(SubSeq(s, 1, Len(s) - 1))
    ELSE s

\* line 72
Message_Lines(sig, p, test, dir) ==
    Strip(MsgStart(sig, p) \o "\n" \o "Used " \o test \o ".\n" \o dir)
Message(sig, p, test, dir) == Strip(MsgStart(sig, p) \o " Used " \o test \o ". " \o dir)

\* lines 74-78
MakeResult(p, sig, msg) == [p_value |-> p, significant |-> sig, message |-> msg]

\* ------------------------------------------------------------- state
VARIABLES
    data_a, data_b,            \* the caller's two collections
    a, b,                      \* the sanitized arrays
    shapiro_a, shapiro_b,      \* outcomes of the two diagnostics
    is_normal_a, is_normal_b,
    test_used, stat_res, p_value,
    result,                    \* <<>> until a record is returned, then <<record>>
    error,                     \* the exception that left the call, if any
    calls,                     \* library calls made so far, in order
    too_small,                 \* the library build's treatment of too-small samples
    pc,
    frames,                    \* several calls: the locals of each, by call number
    memo,                      \* several calls: what the library returned, by call made
    heap,                      \* colors.py: the colours of every list object
    held,                      \* colors.py: the list the caller received last
    last,                      \* colors.py: the latest call and what it gave
    edits,                     \* colors.py: changes made by callers so far
    uploaded_data,             \* app.py: the data file in the uploader, or NoFile
    uploaded_meta,             \* app.py: the description file, or NoFile
    process_button,            \* app.py: the button was pressed for this run
    df_data, df_meta,          \* app.py: the frames read in this run
    shown,                     \* app.py: what lines 17-48 put on the page in this run
    page_pc,                   \* app.py: the line the run is at
    reruns                     \* app.py: interactions so far

vars == <<data_a, data_b, a, b, shapiro_a, shapiro_b, is_normal_a, is_normal_b,
          test_used, stat_res, p_value, result, error, calls, too_small, pc>>

\* ------------------------------------------------------- colors.py
SBER_GREEN == "#21A038"
SBER_ORANGE == "#FF6B00"
SBER_BLUE == "#0E67D7"
SBER_PURPLE == "#7B4EA5"
SBER_RED == "#E31E24"
SBER_YELLOW == "#FFB800"
SBER_BLACK == "#000000"

\* the module-level list objects, each named by its identity
PALETTE_PRIMARY == "PALETTE_PRIMARY"
PALETTE_SEQUENTIAL_GREEN == "PALETTE_SEQUENTIAL_GREEN"
PALETTE_DIVERGING == "PALETTE_DIVERGING"
PALETTE_CATEGORICAL == PALETTE_PRIMARY           \* line 57: the same object
GRADIENT_GREEN == "GRADIENT_GREEN"
GRADIENT_BLUE == "GRADIENT_BLUE"
GRADIENT_WARM == "GRADIENT_WARM"
ModuleLists == {PALETTE_PRIMARY, PALETTE_SEQUENTIAL_GREEN, PALETTE_DIVERGING,
                GRADIENT_GREEN, GRADIENT_BLUE, GRADIENT_WARM}
Fresh == "fresh"                 \* the list object the latest call created
NoList == ""

\* lines 29-62: the colours of each list when the module has been imported
Defined ==
    (PALETTE_PRIMARY :> <<SBER_GREEN, SBER_BLUE, SBER_ORANGE, SBER_PURPLE,
                          SBER_YELLOW, SBER_RED>>)
    @@ (PALETTE_SEQUENTIAL_GREEN :> <<"#E8F5E9", "#A5D6A7", "#66BB6A", "#43A047",
                                     "#2E7D32", "#1B5E20">>)
    @@ (PALETTE_DIVERGING :> <<"#E31E24", "#FF6B00", "#FFB800", "#E6E6E6",
                              "#3BB54A", "#21A038", "#168A2C">>)
    @@ (GRADIENT_GREEN :> <<"#E8F5E9", "#21A038", "#168A2C">>)
    @@ (GRADIENT_BLUE :> <<"#E3F2FD", "#0E67D7", "#0D47A1">>)
    @@ (GRADIENT_WARM :> <<"#FFE0B2", "#FF6B00", "#E31E24">>)
    @@ (Fresh :> <<>>)

\* lines 84-92: the dict of get_palette
palettes ==
    ("primary" :> PALETTE_PRIMARY)
    @@ ("sequential" :> PALETTE_SEQUENTIAL_GREEN)
    @@ ("diverging" :> PALETTE_DIVERGING)
    @@ ("categorical" :> PALETTE_CATEGORICAL)
    @@ ("gradient_green" :> GRADIENT_GREEN)
    @@ ("gradient_blue" :> GRADIENT_BLUE)
    @@ ("gradient_warm" :> GRADIENT_WARM)

\* line 94: palettes.get(name, PALETTE_PRIMARY)
Lookup(name) == IF name \in DOMAIN palettes THEN palettes[name] ELSE PALETTE_PRIMARY

\* n_colors: None, or <<n>> for the integer n
None == <<>>
Some(n) == <<n>>

\* line 100: palette[:n]; a negative n counts from the end
Prefix(s, n) ==
    SubSeq(s, 1, IF n >= 0 THEN n ELSE IF Len(s) + n > 0 THEN Len(s) + n ELSE 0)

\* line 103: [palette[i % len(palette)] for i in range(n)]
Cycle_Pad(s, n) == [i \in 1..n |-> IF i <= Len(s) THEN s[i] ELSE s[Len(s)]]
Cycle(s, n) == [i \in 1..n |-> s[((i - 1) % Len(s)) + 1]]

\* a call, the colours of every list when it was made, and what it gave
Answer(fn, name, n, before, value, err) ==
    [fn |-> fn, name |-> name, n_colors |-> n, before |-> before,
     value |-> value, error |-> err]
NoAnswer == Answer("", "", None, <<>>, <<>>, "")

palVars == <<heap, held, last, edits>>
\* colors.py not in use
PaletteIdle == heap = <<>> /\ held = NoList /\ last = NoAnswer /\ edits = 0

\* ------------------------------------------------------------ app.py
NoFile == ""
DataFiles == {"data.csv", "data.xlsx"}           \* line 11: type=["xlsx", "csv"]
MetaFiles == {"meta.xlsx"}                       \* line 12: type=["xlsx"]

\* a DataFrame: the reader that made it and the file it read
DataFrame(by, of) == [by |-> by, of |-> of]
NoFrame == DataFrame("", "")

\* line 20: uploaded_data.name.endswith('.csv')
EndsWithCsv(name) == Len(name) >= 4 /\ SubSeq(name, Len(name) - 3, Len(name)) = ".csv"
Reader(name) == IF EndsWithCsv(name) THEN "read_csv" ELSE "read_excel"

\* pandas and streamlit are not part of the repository: a reader, and
\* st.dataframe on what was read, completes or raises an Exception
CallOutcomes == {"ok", "raise"}

\* the elements lines 17-48 put on the page
InfoBegin == "Please upload data and variable description files to begin."
WarnBoth == "Please upload both files"
DataHeading == "Data Preview"
MetaHeading == "Variable Description Preview"
Table(df) == "head of " \o df.of
ProcessingNotice == "Processing started..."
ErrorShown == "Error loading files: e"

pageVars == <<uploaded_data, uploaded_meta, process_button, df_data, df_meta,
              shown, page_pc, reruns>>
\* app.py not in use
PageIdle ==
    /\ uploaded_data = NoFile /\ uploaded_meta = NoFile /\ process_button = FALSE
    /\ df_data = NoFrame /\ df_meta = NoFrame
    /\ shown = <<>> /\ page_pc = "idle" /\ reruns = 0

\* the variables of the other specifications, idle in a single call
sessVars == <<frames, memo>>
otherVars == <<sessVars, palVars, pageVars>>
OthersIdle == frames = <<>> /\ memo = {} /\ PaletteIdle /\ PageIdle

Unset == [kind |-> "unset", pvalue |-> NaN]
NoError == [kind |-> "", at |-> ""]
Call(fn, x, y, out) == [fn |-> fn, x |-> x, y |-> y, out |-> out]

Init ==
    /\ data_a \in SeqsUpTo(ObsA \cup {NaN}, MaxLen)
    /\ data_b \in SeqsUpTo(ObsB \cup {NaN}, MaxLen)
    /\ a = <<>> /\ b = <<>>
    /\ shapiro_a = Unset /\ shapiro_b = Unset
    /\ is_normal_a = FALSE /\ is_normal_b = FALSE
    /\ test_used = "" /\ stat_res = Unset /\ p_value = NaN
    /\ result = <<>> /\ error = NoError /\ calls = <<>>
    /\ too_small = "unseen"
    /\ pc = "sanitize"
    /\ OthersIdle

\* lines 25-30
Sanitize_InPlace ==
    /\ pc = "sanitize"
    /\ data_a' = DropNaN(data_a) /\ a' = data_a'
    /\ data_b' = DropNaN(data_b) /\ b' = data_b'
    /\ pc' = "shapiro_a"
    /\ UNCHANGED <<shapiro_a, shapiro_b, is_normal_a, is_normal_b,
                   test_used, stat_res, p_value, result, error, calls, too_small>>
    /\ UNCHANGED otherVars
Sanitize ==
    /\ pc = "sanitize"
    /\ a' = DropNaN(data_a)
    /\ b' = DropNaN(data_b)
    /\ pc' = "shapiro_a"
    /\ UNCHANGED <<data_a, data_b, shapiro_a, shapiro_b, is_normal_a, is_normal_b,
                   test_used, stat_res, p_value, result, error, calls, too_small>>
    /\ UNCHANGED otherVars

\* the except clause of lines 39-43, or the exception leaving the call
Diagnosed(r, pa) ==
    IF r.kind = "ValueError"
    THEN /\ is_normal_a' = OnValueError(pa).a
         /\ is_normal_b' = OnValueError(pa).b
         /\ pc' = "select"
         /\ error' = error
    ELSE /\ error' = [kind |-> r.kind, at |-> pc]
         /\ pc' = "raised"
         /\ UNCHANGED <<is_normal_a, is_normal_b>>

\* line 35
ShapiroA ==
    /\ pc = "shapiro_a"
    /\ \E r \in ShapiroOutcomes(a, too_small) :
        /\ calls' = Append(calls, Call("shapiro", a, <<>>, r))
        /\ too_small' = PolicyAfter(too_small, Len(a) < 3, r)
        /\ IF r.kind = "ok"
           THEN /\ shapiro_a' = r
                /\ pc' = "shapiro_b"
                /\ UNCHANGED <<is_normal_a, is_normal_b, error>>
           ELSE /\ Diagnosed(r, NaN)
                /\ UNCHANGED shapiro_a
    /\ UNCHANGED <<data_a, data_b, a, b, shapiro_b, test_used, stat_res, p_value, result>>
    /\ UNCHANGED otherVars

\* lines 36-38
ShapiroB ==
    /\ pc = "shapiro_b"
    /\ \E r \in ShapiroOutcomes(b, too_small) :
        /\ calls' = Append(calls, Call("shapiro", b, <<>>, r))
        /\ too_small' = PolicyAfter(too_small, Len(b) < 3, r)
        /\ IF r.kind = "ok"
           THEN /\ shapiro_b' = r
                /\ is_normal_a' = IsNormal(shapiro_a.pvalue)
                /\ is_normal_b' = IsNormal(r.pvalue)
                /\ pc' = "select"
                /\ UNCHANGED error
           ELSE /\ Diagnosed(r, shapiro_a.pvalue)
                /\ UNCHANGED shapiro_b
    /\ UNCHANGED <<data_a, data_b, a, b, shapiro_a, test_used, stat_res, p_value, result>>
    /\ UNCHANGED otherVars

\* what follows the call of the selected test (lines 49-50, 53-54)
Executed_Raw(test, fn, r) ==
    /\ test_used' = test
    /\ calls' = Append(calls, Call(fn, data_a, data_b, r))
    /\ IF r.kind = "ok"
       THEN /\ stat_res' = r
            /\ p_value' = PValueOf(r)
            /\ pc' = "summarize"
            /\ UNCHANGED error
       ELSE /\ error' = [kind |-> Propagate(r.kind), at |-> fn]
            /\ pc' = "raised"
            /\ UNCHANGED <<stat_res, p_value>>
    /\ UNCHANGED <<data_a, data_b, a, b, shapiro_a, shapiro_b, is_normal_a, is_normal_b,
                   result, too_small>>
    /\ UNCHANGED otherVars
Executed(test, fn, r) ==
    /\ test_used' = test
    /\ calls' = Append(calls, Call(fn, a, b, r))
    /\ IF r.kind = "ok"
       THEN /\ stat_res' = r
            /\ p_value' = PValueOf(r)
            /\ pc' = "summarize"
            /\ UNCHANGED error
       ELSE /\ error' = [kind |-> Propagate(r.kind), at |-> fn]
            /\ pc' = "raised"
            /\ UNCHANGED <<stat_res, p_value>>
    /\ UNCHANGED <<data_a, data_b, a, b, shapiro_a, shapiro_b, is_normal_a, is_normal_b,
                   result, too_small>>
    /\ UNCHANGED otherVars

\* lines 47-50
RunTtest ==
    /\ pc = "select"
    /\ SelectTest(is_normal_a, is_normal_b) = "T-test"
    /\ \E r \in TtestOutcomes(a, b) : Executed("T-test", "ttest_ind", r)

\* lines 51-54
RunMannWhitney ==
    /\ pc = "select"
    /\ SelectTest(is_normal_a, is_normal_b) = "Mann-Whitney U test"
    /\ \E r \in MannWhitneyOutcomes(a, b, too_small) : Executed("Mann-Whitney U test", "mannwhitneyu", r)

\* lines 56-78
Summarize ==
    /\ pc = "summarize"
    /\ LET significant == Significant(p_value)
           mean_a == Mean(a)
           mean_b == Mean(b)
           direction == Direction(significant, mean_a, mean_b)
           message == Message(significant, p_value, test_used, direction)
       IN  result' = <<MakeResult(p_value, significant, message)>>
    /\ pc' = "returned"
    /\ UNCHANGED <<data_a, data_b, a, b, shapiro_a, shapiro_b, is_normal_a, is_normal_b,
                   test_used, stat_res, p_value, error, calls, too_small>>
    /\ UNCHANGED otherVars

Next == Sanitize \/ ShapiroA \/ ShapiroB \/ RunTtest \/ RunMannWhitney \/ Summarize

Spec == Init /\ [][Next]_vars

\* ==================================================== several calls
\* The same function, called several times: each call has its own locals
\* (a frame); the library is deterministic, so a call it has already
\* answered gets the same answer again (memo).  The library's answers do not
\* depend on the order of the observations (shapiro sorts, ttest_ind uses
\* moments, mannwhitneyu uses ranks), hence the sorted key.

Methods == {"t-test", "mann-whitney"}         \* values offered for method
DefaultMethod == "t-test"                     \* line 4

\* the locals of a call at its entry (line 4)
Frame(da, db, method) ==
    [data_a |-> da, data_b |-> db, method |-> method,
     a |-> <<>>, b |-> <<>>, shapiro_a |-> Unset, shapiro_b |-> Unset,
     is_normal_a |-> FALSE, is_normal_b |-> FALSE,
     test_used |-> "", stat_res |-> Unset, p_value |-> NaN,
     result |-> <<>>, error |-> NoError, pc |-> "sanitize"]

Ended(f) == f.pc \in {"returned", "raised"}

\* lines 4, 15-16, 47: method is a parameter that the body never reads
ChooseTest_Honoured(method, na, nb) ==
    IF method = "mann-whitney" THEN "Mann-Whitney U test" ELSE SelectTest(na, nb)
ChooseTest(method, na, nb) == SelectTest(na, nb)

\* the library call a frame is about to make (lines 35, 36, 49, 53)
NoCall == [fn |-> "", x |-> <<>>, y |-> <<>>]
Pending(f) ==
    CASE f.pc = "shapiro_a" -> [fn |-> "shapiro", x |-> f.a, y |-> <<>>]
      [] f.pc = "shapiro_b" -> [fn |-> "shapiro", x |-> f.b, y |-> <<>>]
      [] f.pc = "select" ->
            IF ChooseTest(f.method, f.is_normal_a, f.is_normal_b) = "T-test"
            THEN [fn |-> "ttest_ind", x |-> f.a, y |-> f.b]
            ELSE [fn |-> "mannwhitneyu", x |-> f.a, y |-> f.b]
      [] OTHER -> NoCall

\* the frame after its next step; r is what the pending library call gave
After(f, r) ==
    CASE f.pc = "sanitize" ->                                  \* lines 25-30
            [f EXCEPT !.a = DropNaN(f.data_a), !.b = DropNaN(f.data_b),
                      !.pc = "shapiro_a"]
      [] f.pc \in {"shapiro_a", "shapiro_b"} ->                \* lines 34-43
            IF r.kind = "ok"
            THEN IF f.pc = "shapiro_a"
                 THEN [f EXCEPT !.shapiro_a = r, !.pc = "shapiro_b"]
                 ELSE [f EXCEPT !.shapiro_b = r,
                                !.is_normal_a = IsNormal(f.shapiro_a.pvalue),
                                !.is_normal_b = IsNormal(r.pvalue),
                                !.pc = "select"]
            ELSE IF r.kind = "ValueError"
                 THEN [f EXCEPT !.is_normal_a = OnValueError(f.shapiro_a.pvalue).a,
                                !.is_normal_b = OnValueError(f.shapiro_a.pvalue).b,
                                !.pc = "select"]
                 ELSE [f EXCEPT !.error = [kind |-> r.kind, at |-> f.pc],
                                !.pc = "raised"]
      [] f.pc = "select" ->                                    \* lines 47-54
            LET test == ChooseTest(f.method, f.is_normal_a, f.is_normal_b) IN
            IF r.kind = "ok"
            THEN [f EXCEPT !.test_used = test, !.stat_res = r,
                           !.p_value = PValueOf(r), !.pc = "summarize"]
            ELSE [f EXCEPT !.test_used = test,
                           !.error = [kind |-> Propagate(r.kind), at |-> Pending(f).fn],
                           !.pc = "raised"]
      [] f.pc = "summarize" ->                                 \* lines 56-78
            LET significant == Significant(f.p_value)
                direction == Direction(significant, Mean(f.a), Mean(f.b))
                message == Message(significant, f.p_value, f.test_used, direction)
            IN  [f EXCEPT !.result = <<MakeResult(f.p_value, significant, message)>>,
                          !.pc = "returned"]
      [] OTHER -> f

\* ---- the library across calls
Sorted(s) == SortSeq(s, LAMBDA u, v : u < v)
Key(c) == [fn |-> c.fn, x |-> Sorted(c.x), y |-> Sorted(c.y)]
Known(m, c) == {e.out : e \in {d \in m : d.key = Key(c)}}
TooSmallCall(c) ==
    \/ c.fn = "shapiro" /\ Len(c.x) < 3
    \/ c.fn = "mannwhitneyu" /\ (Len(c.x) = 0 \/ Len(c.y) = 0)
PolicyOf(m) ==
    IF \E e \in m : TooSmallCall(e.key) /\ e.out.kind = "ValueError" THEN "raise"
    ELSE IF \E e \in m : TooSmallCall(e.key) THEN "nan"
    ELSE "unseen"
LibOutcomes(c, policy) ==
    CASE c.fn = "shapiro" -> ShapiroOutcomes(c.x, policy)
      [] c.fn = "ttest_ind" -> TtestOutcomes(c.x, c.y)
      [] c.fn = "mannwhitneyu" -> MannWhitneyOutcomes(c.x, c.y, policy)
\* what the library may answer to call c, given what it has answered so far
Choices_Random(m, c) == LibOutcomes(c, PolicyOf(m))
Choices(m, c) == IF Known(m, c) # {} THEN Known(m, c) ELSE LibOutcomes(c, PolicyOf(m))
Remember(m, c, r) == m \cup {[key |-> Key(c), out |-> r]}

\* every way a call can run from frame f to its end: the ended frame and the
\* library's answers after it
RECURSIVE Runs(_, _)
Runs(f, m) ==
    IF Ended(f) THEN {[frame |-> f, memo |-> m]}
    ELSE IF Pending(f) = NoCall THEN Runs(After(f, Unset), m)
    ELSE UNION {Runs(After(f, r), Remember(m, Pending(f), r)) : r \in Choices(m, Pending(f))}

\* the single call's variables, unused when several calls are modelled
CallIdle ==
    /\ data_a = <<>> /\ data_b = <<>> /\ a = <<>> /\ b = <<>>
    /\ shapiro_a = Unset /\ shapiro_b = Unset
    /\ is_normal_a = FALSE /\ is_normal_b = FALSE
    /\ test_used = "" /\ stat_res = Unset /\ p_value = NaN
    /\ result = <<>> /\ error = NoError /\ calls = <<>>
    /\ too_small = "unseen" /\ pc = "idle"

\* ---- a session: three calls, one after the other
SessObsA == {2, 3}
SessObsB == {2}
Reverse(s) == [i \in 1..Len(s) |-> s[Len(s) + 1 - i]]
WithoutNaN(s) == SelectSeq(s, LAMBDA v : v # NaN)

\* the second call's arguments: the first call's with one change (the NaN
\* entries removed, sample A reordered, another method, the groups
\* exchanged)
Variants(da, db) ==
    {[a |-> WithoutNaN(da), b |-> WithoutNaN(db), m |-> DefaultMethod],
     [a |-> Reverse(da), b |-> db, m |-> DefaultMethod],
     [a |-> db, b |-> da, m |-> DefaultMethod]}
    \cup {[a |-> da, b |-> db, m |-> m] : m \in Methods}

\* call 1 on any two samples, call 2 on a variant of them, call 3 on the
\* same two samples as call 1
InitSession ==
    /\ CallIdle
    /\ PaletteIdle /\ PageIdle
    /\ memo = {}
    /\ \E da \in SeqsUpTo(SessObsA \cup {NaN}, MaxLen),
          db \in SeqsUpTo(SessObsB \cup {NaN}, MaxLen) :
         \E v \in Variants(da, db) :
            frames = <<Frame(da, db, DefaultMethod), Frame(v.a, v.b, v.m),
                       Frame(da, db, DefaultMethod)>>

\* compare_groups(data_a, data_b, method), from entry to return or failure
Invoke(c) ==
    /\ ~Ended(frames[c])
    /\ \A k \in 1..(c - 1) : Ended(frames[k])
    /\ \E run \in Runs(frames[c], memo) :
        /\ frames' = [frames EXCEPT ![c] = run.frame]
        /\ memo' = run.memo
    /\ UNCHANGED <<vars, palVars, pageVars>>

NextSession == \E c \in DOMAIN frames : Invoke(c)

allVars == <<vars, sessVars, palVars, pageVars>>
SpecSession == InitSession /\ [][NextSession]_allVars

\* ---- two calls at once: the steps of both interleave in any order
ConcA == {<<1, 4, 1>>, <<4, 4, 4>>, <<NaN, 4>>}
ConcB == {<<2, 2, 2>>, <<2, NaN>>}

InitConc ==
    /\ CallIdle
    /\ PaletteIdle /\ PageIdle
    /\ memo = {}
    /\ \E a1 \in ConcA, b1 \in ConcB, a2 \in ConcA, b2 \in ConcB :
         frames = <<Frame(a1, b1, DefaultMethod), Frame(a2, b2, DefaultMethod)>>

\* lines 25-78: a, b and every other name the body assigns are locals of the
\* call; tests.py has no module-level variable
ReadLocals_Global(fs, c) == [fs[c] EXCEPT !.a = fs[1].a, !.b = fs[1].b]
ReadLocals(fs, c) == fs[c]

\* a step of call c that calls nothing (sanitize, summarize)
OwnStep(c) ==
    LET f == ReadLocals(frames, c) IN
    /\ ~Ended(f)
    /\ Pending(f) = NoCall
    /\ frames' = [frames EXCEPT ![c] = After(f, Unset)]
    /\ UNCHANGED <<memo, vars, palVars, pageVars>>

\* a step of call c that calls the library (shapiro, the selected test)
LibraryStep(c) ==
    LET f == ReadLocals(frames, c) IN
    /\ ~Ended(f)
    /\ Pending(f) # NoCall
    /\ \E r \in Choices(memo, Pending(f)) :
        /\ frames' = [frames EXCEPT ![c] = After(f, r)]
        /\ memo' = Remember(memo, Pending(f), r)
    /\ UNCHANGED <<vars, palVars, pageVars>>

NextConc ==
    \/ \E c \in DOMAIN frames : OwnStep(c)
    \/ \E c \in DOMAIN frames : LibraryStep(c)

SpecConc == InitConc /\ [][NextConc]_allVars

\* ---- colors.py: calls of get_palette, and callers changing the lists they
\* received
PaletteNames == DOMAIN palettes
NamesAsked == PaletteNames \cup {"rainbow"}
NColorsAsked == {None} \cup {Some(n) : n \in -1..MaxColors}

InitPalette ==
    /\ CallIdle
    /\ frames = <<>> /\ memo = {}
    /\ PageIdle
    /\ heap = Defined /\ held = NoList /\ last = NoAnswer /\ edits = 0

\* the colours of the module-level lists
Module(h) == [l \in ModuleLists |-> h[l]]

\* lines 65-103; a list the caller no longer holds is gone
GetPalette(name, n_colors) ==
    LET palette == Lookup(name)
        colours == heap[palette]
        n == n_colors[1]
    IN  /\ IF n_colors = None
           THEN /\ held' = palette                             \* line 97
                /\ heap' = [heap EXCEPT ![Fresh] = <<>>]
                /\ last' = Answer("get_palette", name, n_colors, Module(heap),
                                  colours, "")
           ELSE IF n <= Len(colours)
           THEN /\ held' = Fresh                               \* line 100
                /\ heap' = [heap EXCEPT ![Fresh] = Prefix(colours, n)]
                /\ last' = Answer("get_palette", name, n_colors, Module(heap),
                                  Prefix(colours, n), "")
           ELSE IF Len(colours) = 0
           THEN /\ UNCHANGED <<held, heap>>                    \* line 103: i % 0
                /\ last' = Answer("get_palette", name, n_colors, Module(heap),
                                  <<>>, "ZeroDivisionError")
           ELSE /\ held' = Fresh                               \* line 103
                /\ heap' = [heap EXCEPT ![Fresh] = Cycle(colours, n)]
                /\ last' = Answer("get_palette", name, n_colors, Module(heap),
                                  Cycle(colours, n), "")
        /\ UNCHANGED <<edits, vars, sessVars, pageVars>>

\* the caller appends a colour to the list it received
ListAppend ==
    /\ held # NoList /\ edits < MaxEdits
    /\ heap' = [heap EXCEPT ![held] = Append(@, SBER_BLACK)]
    /\ edits' = edits + 1
    /\ UNCHANGED <<held, last, vars, sessVars, pageVars>>

\* the caller empties the list it received
ListClear ==
    /\ held # NoList /\ edits < MaxEdits
    /\ heap' = [heap EXCEPT ![held] = <<>>]
    /\ edits' = edits + 1
    /\ UNCHANGED <<held, last, vars, sessVars, pageVars>>

NextPalette ==
    \/ \E name \in NamesAsked, n_colors \in NColorsAsked : GetPalette(name, n_colors)
    \/ ListAppend
    \/ ListClear

SpecPalette == InitPalette /\ [][NextPalette]_allVars

\* ---- colors.py: get_palette and get_color, called by callers that change
\* the lists they received
IndexAsked == 0..MaxColors

\* lines 106-120: PALETTE_PRIMARY[index % len(PALETTE_PRIMARY)]
GetColor(index) ==
    LET colours == heap[PALETTE_PRIMARY] IN
    /\ IF Len(colours) = 0
       THEN last' = Answer("get_color", "", Some(index), Module(heap), <<>>,
                           "ZeroDivisionError")
       ELSE last' = Answer("get_color", "", Some(index), Module(heap),
                           <<colours[(index % Len(colours)) + 1]>>, "")
    /\ UNCHANGED <<heap, held, edits, vars, sessVars, pageVars>>

NextAlias ==
    \/ \E name \in NamesAsked, n_colors \in NColorsAsked : GetPalette(name, n_colors)
    \/ \E index \in IndexAsked : GetColor(index)
    \/ ListAppend
    \/ ListClear

SpecAlias == InitPalette /\ [][NextAlias]_allVars

\* the call run alone from frame f, the library answering as recorded in m;
\* "diverged" if it makes a call the library was never asked
RECURSIVE Alone(_, _)
Alone(f, m) ==
    IF Ended(f) THEN f
    ELSE IF Pending(f) = NoCall THEN Alone(After(f, Unset), m)
    ELSE IF Known(m, Pending(f)) = {} THEN [f EXCEPT !.pc = "diverged"]
    ELSE Alone(After(f, CHOOSE r \in Known(m, Pending(f)) : TRUE), m)

\* ==================================================== the upload page
\* app.py is run from its first line on every interaction with the page
notPage == <<vars, sessVars, palVars>>

InitPage ==
    /\ CallIdle
    /\ frames = <<>> /\ memo = {}
    /\ PaletteIdle
    /\ uploaded_data = NoFile /\ uploaded_meta = NoFile /\ process_button = FALSE
    /\ df_data = NoFrame /\ df_meta = NoFrame
    /\ shown = <<>> /\ page_pc = "branch" /\ reruns = 0

\* an interaction starts the next run with an empty page
Rerun(data, meta, button) ==
    /\ page_pc = "done" /\ reruns < MaxReruns
    /\ uploaded_data' = data /\ uploaded_meta' = meta /\ process_button' = button
    /\ df_data' = NoFrame /\ df_meta' = NoFrame
    /\ shown' = <<>> /\ page_pc' = "branch" /\ reruns' = reruns + 1
    /\ UNCHANGED notPage

\* line 11: the user puts a data file into the uploader, or takes it out
ChooseData ==
    \E f \in (DataFiles \cup {NoFile}) \ {uploaded_data} : Rerun(f, uploaded_meta, FALSE)

\* line 12
ChooseMeta ==
    \E f \in (MetaFiles \cup {NoFile}) \ {uploaded_meta} : Rerun(uploaded_data, f, FALSE)

\* line 14: the button is True in the run its press starts
PressProcess ==
    /\ process_button' = TRUE
    /\ Rerun(uploaded_data, uploaded_meta, TRUE)

\* lines 17, 42-48
Branch ==
    /\ page_pc = "branch"
    /\ IF uploaded_data # NoFile /\ uploaded_meta # NoFile
       THEN shown' = shown /\ page_pc' = "load_data"
       ELSE IF uploaded_data # NoFile \/ uploaded_meta # NoFile
       THEN shown' = Append(shown, WarnBoth) /\ page_pc' = "done"
       ELSE shown' = Append(shown, InfoBegin) /\ page_pc' = "done"
    /\ UNCHANGED <<uploaded_data, uploaded_meta, process_button, df_data, df_meta,
                   reruns, notPage>>

\* lines 20-23
LoadData ==
    /\ page_pc = "load_data"
    /\ \E r \in CallOutcomes :
         IF r = "ok"
         THEN /\ df_data' = DataFrame(Reader(uploaded_data), uploaded_data)
              /\ page_pc' = "load_meta"
         ELSE /\ df_data' = df_data
              /\ page_pc' = "except"
    /\ UNCHANGED <<uploaded_data, uploaded_meta, process_button, df_meta, shown,
                   reruns, notPage>>

\* line 26
LoadMeta ==
    /\ page_pc = "load_meta"
    /\ \E r \in CallOutcomes :
         IF r = "ok"
         THEN /\ df_meta' = DataFrame("read_excel", uploaded_meta)
              /\ page_pc' = "preview_data"
         ELSE /\ df_meta' = df_meta
              /\ page_pc' = "except"
    /\ UNCHANGED <<uploaded_data, uploaded_meta, process_button, df_data, shown,
                   reruns, notPage>>

\* lines 29-30: the heading, then the table unless st.dataframe raises
PreviewData ==
    /\ page_pc = "preview_data"
    /\ \E r \in CallOutcomes :
         IF r = "ok"
         THEN /\ shown' = shown \o <<DataHeading, Table(df_data)>>
              /\ page_pc' = "preview_meta"
         ELSE /\ shown' = Append(shown, DataHeading)
              /\ page_pc' = "except"
    /\ UNCHANGED <<uploaded_data, uploaded_meta, process_button, df_data, df_meta,
                   reruns, notPage>>

\* lines 32-33
PreviewMeta ==
    /\ page_pc = "preview_meta"
    /\ \E r \in CallOutcomes :
         IF r = "ok"
         THEN /\ shown' = shown \o <<MetaHeading, Table(df_meta)>>
              /\ page_pc' = "process"
         ELSE /\ shown' = Append(shown, MetaHeading)
              /\ page_pc' = "except"
    /\ UNCHANGED <<uploaded_data, uploaded_meta, process_button, df_data, df_meta,
                   reruns, notPage>>

\* lines 35-36
Process ==
    /\ page_pc = "process"
    /\ shown' = IF process_button THEN Append(shown, ProcessingNotice) ELSE shown
    /\ page_pc' = "done"
    /\ UNCHANGED <<uploaded_data, uploaded_meta, process_button, df_data, df_meta,
                   reruns, notPage>>

\* lines 39-40: except Exception as e: st.error(...)
Except ==
    /\ page_pc = "except"
    /\ shown' = Append(shown, ErrorShown)
    /\ page_pc' = "done"
    /\ UNCHANGED <<uploaded_data, uploaded_meta, process_button, df_data, df_meta,
                   reruns, notPage>>

NextPage ==
    \/ ChooseData
    \/ ChooseMeta
    \/ PressProcess
    \/ Branch
    \/ LoadData
    \/ LoadMeta
    \/ PreviewData
    \/ PreviewMeta
    \/ Process
    \/ Except

SpecPage == InitPage /\ [][NextPage]_allVars

\* =========================================================== claims
Contains(s, sub) ==
    \E i \in 1..(Len(s) - Len(sub) + 1) : SubSeq(s, i, i + Len(sub) - 1) = sub

NamesTtest(m) == Contains(m, "Used T-test.")
NamesMannWhitney(m) == Contains(m, "Used Mann-Whitney U test.")
SaysAHigher(m) == Contains(m, "Group A mean is higher")
SaysBHigher(m) == Contains(m, "Group B mean is higher")

Returned == pc = "returned"
LastCall == calls[Len(calls)]
TestCalls == {i \in 1..Len(calls) : calls[i].fn \in {"ttest_ind", "mannwhitneyu"}}
\* both diagnostics ran to completion and both gave p >= 0.05
BothPassed ==
    /\ Len(calls) >= 2
    /\ \A i \in 1..2 : /\ calls[i].fn = "shapiro"
                       /\ calls[i].out.kind = "ok"
                       /\ Ge(calls[i].out.pvalue, ALPHA)
\* some diagnostic raised ValueError
DiagnosticValueError ==
    \E i \in 1..Len(calls) : calls[i].fn = "shapiro" /\ calls[i].out.kind = "ValueError"

\* C1: a returned message names "T-test" exactly when both diagnostics
\* completed on the sanitized samples with p >= 0.05, names "Mann-Whitney U
\* test" in every other returning case, and the returned p_value is the one
\* the named test produced.
Thm_C1 ==
    Returned =>
        LET r == result[1] IN
        /\ NamesTtest(r.message) <=> BothPassed
        /\ ~BothPassed => NamesMannWhitney(r.message)
        /\ calls[1].x = DropNaN(data_a)
        /\ Cardinality(TestCalls) = 1
        /\ LastCall.fn = (IF NamesTtest(r.message) THEN "ttest_ind" ELSE "mannwhitneyu")
        /\ LastCall.x = DropNaN(data_a) /\ LastCall.y = DropNaN(data_b)
        /\ r.p_value = LastCall.out.pvalue

\* a returned call in which exactly one sample passed the diagnostic
Wit_C1 ==
    /\ Returned
    /\ Len(calls) = 3
    /\ Ge(calls[1].out.pvalue, ALPHA)
    /\ calls[2].out = Ok(ALPHA - 1)
    /\ NamesMannWhitney(result[1].message)
    /\ result[1].p_value = 0

\* C2: every returned result has significant = (p_value < 0.05); a p_value
\* of exactly 0.05 and a not-a-number p_value are both not significant.
Thm_C2 ==
    Returned =>
        LET r == result[1] IN
        r.significant = (r.p_value # NaN /\ r.p_value < ALPHA)

\* a returned result whose p_value is exactly 0.05
Wit_C2 == Returned /\ result[1].p_value = ALPHA /\ ~result[1].significant

\* C3: when either sanitized sample has fewer than 3 observations the T-test
\* is never run and any test selected is the Mann-Whitney U test.
Thm_C3 ==
    (Len(DropNaN(data_a)) < 3 \/ Len(DropNaN(data_b)) < 3) =>
        /\ \A i \in 1..Len(calls) : calls[i].fn # "ttest_ind"
        /\ test_used \in {"", "Mann-Whitney U test"}
        /\ Returned => NamesMannWhitney(result[1].message)

\* sample A passed the diagnostic, sample B has two observations and its
\* diagnostic returned without raising
Wit_C3 ==
    /\ Returned
    /\ Len(a) = 3 /\ Len(b) = 2
    /\ Ge(calls[1].out.pvalue, ALPHA)
    /\ calls[2].out = Ok(NaN)
    /\ NamesMannWhitney(result[1].message)

\* C4: after a ValueError of the diagnostic on either sample both samples
\* are classified not-normal, also the one whose diagnostic had completed
\* with p >= 0.05; the call goes on to the Mann-Whitney U test and does not
\* fail at the diagnostic.
Thm_C4 ==
    DiagnosticValueError =>
        /\ ~is_normal_a /\ ~is_normal_b
        /\ error.at \notin {"shapiro_a", "shapiro_b"}
        /\ pc = "select" => ENABLED RunMannWhitney /\ ~ENABLED RunTtest
        /\ pc # "select" => test_used = "Mann-Whitney U test"

\* shapiro(a) completed with p >= 0.05, shapiro(b) raised ValueError
Wit_C4 ==
    /\ Returned
    /\ calls[1].out.kind = "ok" /\ Ge(calls[1].out.pvalue, ALPHA)
    /\ calls[2].fn = "shapiro" /\ calls[2].out.kind = "ValueError"
    /\ calls[3].fn = "mannwhitneyu"

\* C5 (as claimed): no failure of the normality diagnostic reaches the
\* caller.
CE_C5 == ~(pc = "raised" /\ error.at \in {"shapiro_a", "shapiro_b"})

\* C6 (as claimed): when the selected test cannot be computed the call
\* fails with a ComputationError.
TestNotComputed ==
    /\ Len(calls) > 0
    /\ LastCall.fn \in {"ttest_ind", "mannwhitneyu"}
    /\ (LastCall.out.kind # "ok" \/ LastCall.out.pvalue = NaN)
CE_C7 == Returned => result[1].p_value \in 0..PMax

\* C8 (as claimed): a call ends by returning a record with the three
\* fields or by failing with no record, and it fails, returning nothing,
\* whenever the selected test produced no statistic.
CE_C8 ==
    /\ Returned => Len(result) = 1
                   /\ DOMAIN result[1] = {"p_value", "significant", "message"}
    /\ pc = "raised" => result = <<>>
    /\ TestNotComputed => ~Returned

\* C9: a not-significant result carries no direction sentence, a
\* significant one carries exactly one of the two.
Thm_C9 ==
    Returned =>
        LET r == result[1] IN
        /\ ~r.significant => ~SaysAHigher(r.message) /\ ~SaysBHigher(r.message)
        /\ r.significant => (SaysAHigher(r.message) # SaysBHigher(r.message))

\* a not-significant result for samples whose means differ
Wit_C9 ==
    /\ Returned
    /\ ~result[1].significant
    /\ result[1].p_value = ALPHA
    /\ MeanGt(Mean(a), Mean(b))
    /\ ~SaysAHigher(result[1].message)

\* C10 (as claimed): the group a returned message calls higher has the
\* strictly greater mean of the two sanitized samples.
CE_C10 ==
    Returned =>
        /\ SaysAHigher(result[1].message) => MeanGt(Mean(a), Mean(b))
        /\ SaysBHigher(result[1].message) => MeanGt(Mean(b), Mean(a))

\* C14: the call never changes the caller's two collections: at every
\* step, up to the return or the failure, data_a and data_b hold the same
\* elements in the same order (NaN entries are dropped from the arrays a and
\* b only).
Thm_C14 == [][data_a' = data_a /\ data_b' = data_b]_vars

\* a call that ended while its input still holds the NaN entry that the
\* sanitized array lost
Wit_C14 ==
    /\ pc \in {"returned", "raised"}
    /\ Len(calls) > 0
    /\ \E i \in 1..Len(data_a) : data_a[i] = NaN
    /\ Len(a) < Len(data_a)

\* number of sentence ends of m: a full stop at the end or before a blank
SentenceCount(m) ==
    Cardinality({i \in 1..Len(m) :
        /\ SubSeq(m, i, i) = "."
        /\ (i = Len(m) \/ SubSeq(m, i + 1, i + 1) = " ")})
HasLineBreak(m) == Contains(m, "\n")

\* C17 (as claimed): every returned message is non-empty, has no line break
\* and is a single sentence.
CE_C17 ==
    Returned =>
        LET m == result[1].message IN
        Len(m) > 0 /\ ~HasLineBreak(m) /\ SentenceCount(m) = 1

\* C17 (amended): every returned message is non-empty and has no line
\* break; it is two sentences when not significant (the finding, the test
\* used) and three when significant (the direction is appended).
Thm_C17 ==
    Returned =>
        LET r == result[1] IN
        /\ Len(r.message) > 0
        /\ ~HasLineBreak(r.message)
        /\ SubSeq(r.message, Len(r.message), Len(r.message)) = "."
        /\ SentenceCount(r.message) = (IF r.significant THEN 3 ELSE 2)

\* a significant result, whose message has three sentences
Wit_C17 ==
    /\ Returned
    /\ result[1].significant
    /\ SentenceCount(result[1].message) = 3

\* rank of a position in the pipeline
Rank(p) ==
    CASE p = "sanitize" -> 0
      [] p = "shapiro_a" -> 1
      [] p = "shapiro_b" -> 2
      [] p = "select" -> 3
      [] p = "summarize" -> 4
      [] OTHER -> 5
IsTest(c) == c.fn \in {"ttest_ind", "mannwhitneyu"}
PipelineOrder ==
    \* nothing is diagnosed before both samples are sanitized
    /\ pc = "sanitize" => calls = <<>>
    \* the diagnostics come first, on the sanitized samples, a before b
    /\ Len(calls) >= 1 => calls[1] = Call("shapiro", DropNaN(data_a), <<>>, calls[1].out)
    /\ (Len(calls) >= 2 /\ ~IsTest(calls[2])) =>
           /\ calls[1].out.kind = "ok"
           /\ calls[2] = Call("shapiro", DropNaN(data_b), <<>>, calls[2].out)
    \* at most one test call, the last call, made once the classification is
    \* fixed and on the sanitized samples
    /\ Len(calls) <= 3
    /\ \A i \in 1..Len(calls) : IsTest(calls[i]) =>
           /\ i = Len(calls) /\ i >= 2
           /\ Rank(pc) >= 4
           /\ calls[i].x = DropNaN(data_a) /\ calls[i].y = DropNaN(data_b)
           /\ calls[i].fn = (IF is_normal_a /\ is_normal_b THEN "ttest_ind"
                             ELSE "mannwhitneyu")
    \* no summary without exactly one executed test
    /\ pc \in {"summarize", "returned"} => Cardinality(TestCalls) = 1
    /\ Returned => result[1].p_value = LastCall.out.pvalue
StepOrder ==
    /\ Rank(pc') > Rank(pc)
    /\ pc' \in {"shapiro_a", "shapiro_b", "summarize"} => Rank(pc') = Rank(pc) + 1
    /\ pc' = "select" => pc \in {"shapiro_a", "shapiro_b"}
    /\ pc' = "returned" => pc = "summarize"
    /\ Rank(pc) >= 3 => (is_normal_a' = is_normal_a /\ is_normal_b' = is_normal_b)
    /\ Rank(pc) >= 1 => (a' = a /\ b' = b)

\* C19: the steps of a call happen in the order sanitize, diagnose, select,
\* execute, summarise; the diagnostics and the test get the sanitized
\* samples; exactly one of the two tests is executed, once, after the
\* classification of both samples is fixed.
Thm_C19 == []PipelineOrder /\ [][StepOrder]_vars

\* a returned call whose Mann-Whitney U test got a sample shorter than the
\* input, after both diagnostics
Wit_C19 ==
    /\ Returned
    /\ Len(calls) = 3
    /\ calls[3].fn = "mannwhitneyu"
    /\ Len(calls[3].x) < Len(data_a)

\* C20: in a significant result the direction is Group A only when mean A
\* is strictly greater than mean B; with exactly equal means (and in every
\* other significant case) the message says "Group B mean is higher.".
Thm_C20 ==
    (Returned /\ result[1].significant) =>
        LET m == result[1].message IN
        /\ MeanEq(Mean(a), Mean(b)) => Contains(m, "Group B mean is higher.")
        /\ SaysAHigher(m) <=> MeanGt(Mean(a), Mean(b))
        /\ SaysBHigher(m) <=> ~MeanGt(Mean(a), Mean(b))

\* a significant result for two samples of equal mean
Wit_C20 ==
    /\ Returned
    /\ result[1].significant
    /\ MeanEq(Mean(a), Mean(b))
    /\ Contains(result[1].message, "Group B mean is higher.")

\* ---- claims about several calls
\* how a call ended: the record returned, or the failure
Outcome(f) == [pc |-> f.pc, result |-> f.result, error |-> f.error]
HasNaN(s) == \E i \in 1..Len(s) : s[i] = NaN
Count(s, v) == Cardinality({i \in 1..Len(s) : s[i] = v})
SameBag(s, t) ==
    /\ Len(s) = Len(t)
    /\ \A i \in 1..Len(s) : Count(s, s[i]) = Count(t, s[i])
EndedPairs ==
    {p \in (DOMAIN frames) \X (DOMAIN frames) :
        p[1] < p[2] /\ Ended(frames[p[1]]) /\ Ended(frames[p[2]])}
EndsWith(s, t) == Len(s) >= Len(t) /\ SubSeq(s, Len(s) - Len(t) + 1, Len(s)) = t
\* the direction sentence that closes a message, "" if there is none
DirectionOf(m) ==
    IF EndsWith(m, "Group A mean is higher.") THEN "A"
    ELSE IF EndsWith(m, "Group B mean is higher.") THEN "B"
    ELSE ""

\* C11: two calls whose samples differ only by not-a-number entries, any
\* number of them at any positions of either sample, end the same way: the
\* same p_value, significant and message, or the same failure.
Thm_C11 ==
    \A p \in EndedPairs :
        LET f == frames[p[1]]
            g == frames[p[2]]
        IN  (/\ f.method = g.method
             /\ WithoutNaN(f.data_a) = WithoutNaN(g.data_a)
             /\ WithoutNaN(f.data_b) = WithoutNaN(g.data_b))
            => Outcome(f) = Outcome(g)

\* call 1 had NaN entries in both samples, call 2 got the samples without
\* them, of different lengths, and both returned
Wit_C11 ==
    /\ Len(frames) = 3
    /\ frames[1].pc = "returned" /\ frames[2].pc = "returned"
    /\ HasNaN(frames[1].data_a) /\ HasNaN(frames[1].data_b)
    /\ frames[2].data_a = WithoutNaN(frames[1].data_a)
    /\ frames[2].data_b = WithoutNaN(frames[1].data_b)
    /\ Len(frames[2].data_a) # Len(frames[2].data_b)
    /\ Len(frames[2].data_a) > 0 /\ Len(frames[2].data_b) > 0

Thm_C13 ==
    \A p \in EndedPairs :
        LET f == frames[p[1]]
            g == frames[p[2]]
        IN  (f.data_a = g.data_a /\ f.data_b = g.data_b)
            => (f.test_used = g.test_used /\ Outcome(f) = Outcome(g))

\* a call with method 'mann-whitney' that ran the T-test, as the call with
\* the default method did
Wit_C13 ==
    /\ Len(frames) = 3
    /\ frames[1].pc = "returned" /\ frames[2].pc = "returned"
    /\ frames[2].method = "mann-whitney" /\ frames[1].method = "t-test"
    /\ frames[2].data_a = frames[1].data_a /\ frames[2].data_b = frames[1].data_b
    /\ frames[2].test_used = "T-test"

\* C16: two calls whose samples are permutations of each other make the
\* same test choice and give the same significant flag and the same
\* direction statement.
CE_C16 ==
    \A p \in EndedPairs :
        LET f == frames[p[1]]
            g == frames[p[2]]
        IN  (SameBag(f.data_a, g.data_a) /\ SameBag(f.data_b, g.data_b))
            => /\ f.test_used = g.test_used
               /\ f.pc = g.pc
               /\ f.pc = "returned" =>
                    LET r == f.result[1]
                        q == g.result[1]
                    IN  /\ r.significant = q.significant
                        /\ DirectionOf(r.message) = DirectionOf(q.message)

\* C15: with the steps of two calls interleaved in any order, each call
\* ends exactly as it ends when run alone on its own arguments, and a step
\* of one call changes nothing of the other.
EndsAsAlone ==
    \A c \in DOMAIN frames :
        Ended(frames[c]) =>
            Outcome(frames[c])
                = Outcome(Alone(Frame(frames[c].data_a, frames[c].data_b,
                                      frames[c].method), memo))
OneFrameAtATime ==
    \A c \in DOMAIN frames : \A d \in DOMAIN frames :
        (frames'[c] # frames[c] /\ d # c) => frames'[d] = frames[d]
Thm_C15 == []EndsAsAlone /\ [][OneFrameAtATime]_allVars

\* call 2 returned while call 1, on other samples, is in the middle of its
\* own run
Wit_C15 ==
    /\ Len(frames) = 2
    /\ frames[2].pc = "returned"
    /\ frames[1].pc = "select"
    /\ frames[1].data_a # frames[2].data_a
    /\ frames[1].a # frames[2].a

\* C18: get_palette answers with the colours of the list its name stands
\* for (the primary list for a name that is not one of the seven), as they
\* are when the call is made: all of them when n_colors is None, 6 for
\* 'primary' as the module defines it; the first n_colors of them when
\* 0 <= n_colors <= their number; and above that exactly n_colors colours,
\* the i-th being palette[i mod length].
NamedList(name) ==
    CASE name = "primary" -> PALETTE_PRIMARY
      [] name = "sequential" -> PALETTE_SEQUENTIAL_GREEN
      [] name = "diverging" -> PALETTE_DIVERGING
      [] name = "categorical" -> PALETTE_PRIMARY
      [] name = "gradient_green" -> GRADIENT_GREEN
      [] name = "gradient_blue" -> GRADIENT_BLUE
      [] name = "gradient_warm" -> GRADIENT_WARM
      [] OTHER -> PALETTE_PRIMARY
AsDefined(h) == \A l \in ModuleLists : h[l] = Defined[l]
Thm_C18 ==
    last.fn = "get_palette" =>
        LET P == last.before[NamedList(last.name)]
            n == last.n_colors[1]
        IN  /\ last.n_colors = None =>
                /\ last.error = "" /\ last.value = P
                /\ (last.name = "primary" /\ AsDefined(last.before))
                      => Len(last.value) = 6
            /\ (last.n_colors # None /\ 0 <= n /\ n <= Len(P)) =>
                /\ last.error = ""
                /\ last.value = SubSeq(P, 1, n)
            /\ (last.n_colors # None /\ n > Len(P) /\ Len(P) > 0) =>
                /\ last.error = ""
                /\ Len(last.value) = n
                /\ \A i \in 0..(n - 1) : last.value[i + 1] = P[(i % Len(P)) + 1]

\* a name that is no palette's, asked for more colours than the primary
\* palette has: the seventh colour is the first again
Wit_C18 ==
    /\ last.fn = "get_palette"
    /\ last.name \notin PaletteNames
    /\ last.n_colors = Some(8)
    /\ AsDefined(last.before)
    /\ last.error = ""
    /\ Len(last.value) = 8
    /\ last.value[7] = SBER_GREEN /\ last.value[8] = SBER_BLUE

\* C21: whatever callers do to the lists they received, a later
\* get_palette(name) returns the colours the module defines for that
\* palette; a returned list is never a module-level list itself; and the
\* module-level lists, 'categorical' and the results of get_color among
\* them, stay as defined.
CE_C21 ==
    /\ held \notin ModuleLists
    /\ AsDefined(heap)
    /\ (last.fn = "get_palette" /\ last.n_colors = None) =>
          /\ last.error = ""
          /\ last.value = Defined[NamedList(last.name)]
    /\ last.fn = "get_color" =>
          /\ last.error = ""
          /\ last.value = <<Defined[PALETTE_PRIMARY][(last.n_colors[1] % 6) + 1]>>

\* C22: a finished run of the upload page shows exactly one outcome: with
\* no file the info to upload, with exactly one file the warning, with both
\* files either the two previews or the error; and the 'Processing
\* started...' notice is shown only when both files are uploaded, both
\* previews were shown without an error, and the button was pressed for
\* that run.
Uploaded == Cardinality({f \in {"data", "meta"} :
                IF f = "data" THEN uploaded_data # NoFile ELSE uploaded_meta # NoFile})
InShown(e) == \E i \in 1..Len(shown) : shown[i] = e
TwoPreviews ==
    <<DataHeading, Table(DataFrame(Reader(uploaded_data), uploaded_data)),
      MetaHeading, Table(DataFrame("read_excel", uploaded_meta))>>
CE_C22 ==
    page_pc = "done" =>
        /\ Uploaded = 0 => shown = <<InfoBegin>>
        /\ Uploaded = 1 => shown = <<WarnBoth>>
        /\ Uploaded = 2 =>
              \/ shown = TwoPreviews
              \/ shown = Append(TwoPreviews, ProcessingNotice)
              \/ shown = <<ErrorShown>>
        /\ InShown(ProcessingNotice) =>
              /\ Uploaded = 2 /\ process_button
              /\ shown = Append(TwoPreviews, ProcessingNotice)

====
